---- MODULE Spec2Model ----
(***************************************************************************)
(* The Auditor of datadog-log-agent (pkg/auditor/auditor.go): an in-memory *)
(* registry of committed offsets per source path, fed by a channel of      *)
(* messages, flushed periodically to a JSON file, recovered from that file *)
(* at Start, and swept of expired entries.                                 *)
(*                                                                         *)
(* Time is counted in hours.  A time.Time is the integer number of hours   *)
(* it denotes; time.Now() reads the variable now.                          *)
(*                                                                         *)
(* The Tailer (package tailer): one file read chunk by chunk by            *)
(* readForever, each chunk handed to the decoder with the cursor before    *)
(* it, the decoder's records forwarded by forwardMessages to the shared    *)
(* output channel, and a stop in two phases, at end-of-file or when the    *)
(* timer of Stop has fired.                                                *)
(***************************************************************************)
EXTENDS Integers, Sequences, FiniteSets, TLC

(* ------------------------------ bounds -------------------------------- *)

\* the clock stops advancing here
MaxTime == 48
\* messages that can wait on inputChan (senders blocked on the channel)
MaxChan == 1
\* largest byte offset a message carries
MaxOffset == 2
\* largest Version field of a registry file found on disk at start-up
MaxVersion == 2
\* bytes ever written to the tailed file
MaxSize == 3
\* calls of Tailer.Stop
MaxStops == 2
\* calls of Tailer.reset
MaxResets == 1

(* ----------------------------- constants ------------------------------ *)

\* const defaultTTL = 23 * time.Hour
defaultTTL == 23
\* os.SEEK_CUR
SEEK_CUR == 1
\* os.SEEK_END
SEEK_END == 2
\* the Version marshalRegistry writes
WrittenVersion == 0
\* the Version the later layout of the file carries
LaterVersion == 1
\* time.Time{}, the zero time: before every instant of the model
ZeroTime == 0
\* os.SEEK_SET
SEEK_SET == 0
\* make([]byte, 4096): the most one Read returns
BufSize == 4096

\* the paths of the configured log sources
SourcePaths == {"p1", "p2"}
\* the time that passes in one step of the clock: just over the TTL, so that
\* an entry stamped before the step has expired after it
ClockStep == defaultTTL + 1
\* the clock when the model starts: late enough for a file on disk to hold
\* entries older than the TTL
InitNow == defaultTTL + 1

VARIABLES
    now,        \* the wall clock, time.Now()
    disk,       \* the file at a.registryPath
    registry,   \* a.registry: path -> RegistryEntry
    goroutines, \* the goroutines Start has launched
    inputChan,  \* a.inputChan: the messages waiting to be received, oldest first
    flushPc,    \* where flushRegistry stands: "tick" (not running), "write" (copy taken)
    r,          \* flushRegistry's local r, the copy it marshals
    lastSent,   \* history: per path, the offset of the latest message sent with a non-zero offset
    lastOp,     \* history: the last operation on the registry and its result
    registryMutex, \* a.registryMutex: "" when free, else the goroutine holding it
    runPc,      \* where run stands: "recv", "lock", "update", "offset", "unlock"
    runMsg,     \* run's msg, the message it is handling
    cleanupPc,  \* where cleanupRegistry stands: "tick" (not running), "lock", "sweep"
    sweepBefore, \* cleanupRegistry's local expireBefore
    toSweep,    \* the paths cleanupRegistry's range loop has still to visit
    stood,      \* history: the paths and offsets the registry stood at, between
                \* operations, while the flush in progress took its copy
    tailer,     \* the Tailer: file, lastOffset, shouldTrackOffset, shouldStop, stopTimer
    osFile,     \* the tailed file: its size and the position of the open descriptor
    readLoop,   \* readForever: where it stands, n, and the offset of the payload it sends
    decoder,    \* t.d: its state and the record it holds for its OutputChan
    forward,    \* forwardMessages: where it stands, msg's offset and msgOffset
    caller,     \* the callers of the Tailer: tailFrom, reset, the calls of Stop
    hist        \* history: closes (calls of file.Close), start (the offset got at
                \* open), handed (bytes handed to the decoder), arrived (the last
                \* non-zero offset received from outputChan), eof (the last Read
                \* gave io.EOF), reset (reset was called), tracks (the values
                \* written to shouldTrackOffset), fired (a timer of Stop fired),
                \* exit (how readForever returned: "hard", "soft", "error")

\* the steps of the registry operations under registryMutex
mutexVars == <<registryMutex, runPc, runMsg, cleanupPc, sweepBefore, toSweep, stood>>

\* the Tailer, its file, its goroutines and its collaborators
tailerVars == <<tailer, osFile, readLoop, decoder, forward, caller, hist>>

\* the Auditor
auditorVars == <<now, disk, registry, goroutines, inputChan, flushPc, r, lastSent, lastOp,
                 registryMutex, runPc, runMsg, cleanupPc, sweepBefore, toSweep, stood>>

vars == <<now, disk, registry, goroutines, inputChan, flushPc, r, lastSent, lastOp,
          registryMutex, runPc, runMsg, cleanupPc, sweepBefore, toSweep, stood,
          tailer, osFile, readLoop, decoder, forward, caller, hist>>

(* ------------------------------- data --------------------------------- *)

\* make(map[string]*RegistryEntry); a nil map reads the same
EmptyRegistry == [p \in {} |-> 0]

\* RegistryEntry{Path, Timestamp, Offset}
RegistryEntry(path, timestamp, offset) ==
    [Path |-> path, Timestamp |-> timestamp, Offset |-> offset]

\* message.NewOrigin(source, offset) on a message: what run reads of it
Message(path, offset) == [Path |-> path, Offset |-> offset]

\* A JSON value in the place of a time: the RFC 3339 rendering of an instant,
\* a string that is no RFC 3339 time (such as ""), or no such field.
JTime(t) == [kind |-> "rfc3339", t |-> t]
JText == [kind |-> "text", t |-> 0]
JAbsent == [kind |-> "absent", t |-> 0]

\* One entry of the "Registry" object of the file.
JsonEntry(path, timestamp, offset, lastUpdated) ==
    [Path |-> path, Timestamp |-> timestamp, Offset |-> offset, LastUpdated |-> lastUpdated]

\* JsonRegistry{Version, Registry} as the bytes of a file.
JsonRegistry(version, reg) == [state |-> "json", Version |-> version, Registry |-> reg]
\* no file at the path: ioutil.ReadFile fails
Missing == [state |-> "missing", Version |-> 0, Registry |-> EmptyRegistry]
\* a file that is no JSON document (empty, truncated, garbage)
Corrupt == [state |-> "corrupt", Version |-> 0, Registry |-> EmptyRegistry]

\* run holds no message
NoMessage == Message("", 0)

NoOp == [op |-> "new", path |-> "", offset |-> 0, n |-> 0]
Op(op, path, offset, n) == [op |-> op, path |-> path, offset |-> offset, n |-> n]

(* ------------------------- the registry in memory --------------------- *)

\* delete(registry, path)
delete(reg, path) == [p \in DOMAIN reg \ {path} |-> reg[p]]

\* registry[path] = entry
store(reg, path, entry) ==
    [p \in DOMAIN reg \cup {path} |-> IF p = path THEN entry ELSE reg[p]]

\* updateRegistry stamping the entry on every call
updateRegistryAlwaysStamps(reg, path, offset, t) ==
    IF path \notin DOMAIN reg
    THEN store(reg, path, RegistryEntry(path, t, offset))
    ELSE store(reg, path, [reg[path] EXCEPT !.Timestamp = t, !.Offset = offset])

\* updateRegistry only ever moving an offset forward
updateRegistryKeepsLargest(reg, path, offset, t) ==
    IF path \notin DOMAIN reg
    THEN store(reg, path, RegistryEntry(path, t, offset))
    ELSE IF reg[path].Offset < offset
         THEN store(reg, path, [reg[path] EXCEPT !.Timestamp = t, !.Offset = offset])
         ELSE reg

\* updateRegistry(path, offset), run under registryMutex at time t
updateRegistry(reg, path, offset, t) ==
    IF path \notin DOMAIN reg
    THEN store(reg, path, RegistryEntry(path, t, offset))
    ELSE IF reg[path].Offset # offset
         THEN store(reg, path, [reg[path] EXCEPT !.Timestamp = t, !.Offset = offset])
         ELSE reg

\* readOnlyRegistryCopy: a copy by value of every entry, taken under registryMutex
readOnlyRegistryCopy(reg) == [p \in DOMAIN reg |-> reg[p]]

\* GetLastCommitedOffset with the two seek modes exchanged
GetLastCommitedOffsetSwapped(reg, path) ==
    IF path \notin DOMAIN reg
    THEN <<0, SEEK_CUR>>
    ELSE <<reg[path].Offset, SEEK_END>>

\* GetLastCommitedOffset(source): looks source.Path up in a copy of the registry
GetLastCommitedOffset(reg, path) ==
    LET copy == readOnlyRegistryCopy(reg)
    IN  IF path \notin DOMAIN copy
        THEN <<0, SEEK_END>>
        ELSE <<copy[path].Offset, SEEK_CUR>>

\* entry.Timestamp.Before(expireBefore)
Before(t, u) == t < u

\* the loop of cleanupRegistry over the paths still to visit
RECURSIVE cleanupLoop(_, _, _)
cleanupLoop(reg, paths, expireBefore) ==
    IF paths = {}
    THEN reg
    ELSE LET path == CHOOSE p \in paths : TRUE
             next == IF Before(reg[path].Timestamp, expireBefore)
                     THEN delete(reg, path)
                     ELSE reg
         IN  cleanupLoop(next, paths \ {path}, expireBefore)

\* cleanupRegistry with the TTL added to the clock instead of subtracted
cleanupRegistryAddsTTL(reg, t) == cleanupLoop(reg, DOMAIN reg, t + defaultTTL)

\* cleanupRegistry(registry), called at time t
cleanupRegistry(reg, t) == cleanupLoop(reg, DOMAIN reg, t - defaultTTL)

(* --------------------------- the registry file ------------------------ *)

\* time.Time's MarshalJSON: the instant as an RFC 3339 string
MarshalTime(t) == JTime(t)

\* time.Time's UnmarshalJSON on a field that parses; a field that is not
\* there leaves the zero time
UnmarshalTime(j) == IF j.kind = "rfc3339" THEN j.t ELSE ZeroTime

\* marshalRegistry: json.Marshal(JsonRegistry{Version, Registry})
marshalRegistry(reg) ==
    JsonRegistry(WrittenVersion,
                 [p \in DOMAIN reg |->
                    JsonEntry(reg[p].Path, MarshalTime(reg[p].Timestamp),
                              reg[p].Offset, JAbsent)])

\* json.Unmarshal(b, &r) fails: b is no JSON document, or a Timestamp in it
\* is a string that time.Time cannot parse
unmarshalFails(b) ==
    \/ b.state # "json"
    \/ \E p \in DOMAIN b.Registry : b.Registry[p].Timestamp.kind = "text"

\* unmarshalRegistry storing the address of the loop variable: every path
\* ends up with the entry visited last
unmarshalRegistryAliased(b) ==
    IF unmarshalFails(b)
    THEN [err |-> TRUE, registry |-> EmptyRegistry]
    ELSE [err |-> FALSE,
          registry |-> [p \in DOMAIN b.Registry |->
                          LET last == CHOOSE q \in DOMAIN b.Registry :
                                          \A q2 \in DOMAIN b.Registry :
                                              b.Registry[q2].Offset <= b.Registry[q].Offset
                          IN  RegistryEntry(b.Registry[last].Path,
                                            UnmarshalTime(b.Registry[last].Timestamp),
                                            b.Registry[last].Offset)]]

\* unmarshalRegistry(b): (registry, err)
unmarshalRegistry(b) ==
    IF unmarshalFails(b)
    THEN [err |-> TRUE, registry |-> EmptyRegistry]
    ELSE [err |-> FALSE,
          registry |-> [p \in DOMAIN b.Registry |->
                          RegistryEntry(b.Registry[p].Path,
                                        UnmarshalTime(b.Registry[p].Timestamp),
                                        b.Registry[p].Offset)]]

\* recoverRegistry(path) on the file found at path
recoverRegistry(file) ==
    IF file.state = "missing"
    THEN EmptyRegistry
    ELSE IF unmarshalRegistry(file).err
         THEN EmptyRegistry
         ELSE unmarshalRegistry(file).registry

(* ------------------------------ the inputs ---------------------------- *)

\* the offsets messages carry: byte positions, 0 for "do not store"
Offsets == 0..MaxOffset

\* a.registryPath holds a file written by this version: Path and an RFC 3339
\* Timestamp per entry, one entry older than the TTL at InitNow and one
\* exactly TTL old
OwnRegistry ==
    [p \in SourcePaths |->
        JsonEntry(p, JTime(IF p = "p1" THEN InitNow - defaultTTL - 1
                                       ELSE InitNow - defaultTTL), 1, JAbsent)]

\* a.registryPath holds a file in the later layout: Timestamp a plain string,
\* the instant in LastUpdated, no Path
LaterRegistry ==
    [p \in {"p1"} |-> JsonEntry("", JText, 1, JTime(InitNow - defaultTTL))]

\* what may be at a.registryPath when the agent starts: no file, a file that
\* is no JSON, a file of this layout under any version number, or a file of
\* the later layout
InitDisks ==
    {Missing, Corrupt, JsonRegistry(LaterVersion, LaterRegistry)}
    \cup {JsonRegistry(v, OwnRegistry) : v \in 0..MaxVersion}

\* the offsets that take run and updateRegistry through each of their
\* branches: not stored, stored, stored again or replaced
BranchOffsets == {0, 1, MaxOffset}

\* the legacy form of a source identifier
LegacyId(path) == "file:" \o path

\* the identifiers callers look up
LookupIds == SourcePaths \cup {LegacyId(p) : p \in SourcePaths}

(* ------------------------------ the actions --------------------------- *)

\* NewTailer(outputChan, source): no file yet, the cursor at 0, offsets
\* tracked, no stop asked for, no timer; the decoder initialized, not started
NewTailer ==
    /\ tailer = [file |-> "nil", lastOffset |-> 0, shouldTrackOffset |-> TRUE,
                 shouldStop |-> FALSE, stopTimer |-> "nil"]
    /\ osFile = [size |-> 0, pos |-> 0]
    /\ readLoop = [pc |-> "off", n |-> 0, offset |-> 0]
    /\ decoder = [state |-> "init", rec |-> 0]
    /\ forward = [pc |-> "off", msg |-> 0, offset |-> 0]
    /\ caller = [tail |-> "created", reset |-> "idle", stops |-> 0, resets |-> 0]
    /\ hist = [closes |-> 0, start |-> 0, handed |-> 0, arrived |-> 0,
               eof |-> FALSE, reset |-> FALSE, tracks |-> {TRUE},
               fired |-> FALSE, exit |-> ""]

\* New(inputChan) and NewTailer: nothing recovered yet, no goroutine running
Init ==
    /\ now = InitNow
    /\ disk \in InitDisks
    /\ registry = EmptyRegistry
    /\ goroutines = {}
    /\ inputChan = <<>>
    /\ flushPc = "tick"
    /\ r = EmptyRegistry
    /\ lastSent = [p \in SourcePaths |-> 0]
    /\ lastOp = NoOp
    /\ registryMutex = ""
    /\ runPc = "recv"
    /\ runMsg = NoMessage
    /\ cleanupPc = "tick"
    /\ sweepBefore = ZeroTime
    /\ toSweep = {}
    /\ stood = {}
    /\ NewTailer

\* time passes
Tick ==
    /\ now + ClockStep <= MaxTime
    /\ now' = now + ClockStep
    /\ UNCHANGED <<disk, registry, goroutines, inputChan, flushPc, r>>

\* recoverRegistry(path) comes back with an error logged
recoverFails(file) == file.state = "missing" \/ unmarshalFails(file)

\* Start giving up when the registry cannot be recovered
StartGivesUp ==
    /\ goroutines = {}
    /\ registry' = cleanupRegistry(recoverRegistry(disk), now)
    /\ goroutines' = IF recoverFails(disk)
                     THEN {}
                     ELSE {"run", "flushRegistryPediodically", "cleanupRegistryPeriodically"}
    /\ UNCHANGED <<now, disk, inputChan, flushPc, r>>

\* Start(): recover the registry, clean it up, launch the three goroutines
Start ==
    /\ goroutines = {}
    /\ registry' = cleanupRegistry(recoverRegistry(disk), now)
    /\ goroutines' = {"run", "flushRegistryPediodically", "cleanupRegistryPeriodically"}
    /\ UNCHANGED <<now, disk, inputChan, flushPc, r>>

\* a producer sends msg on inputChan
Send(msg) ==
    /\ Len(inputChan) < MaxChan
    /\ inputChan' = Append(inputChan, msg)
    /\ UNCHANGED <<now, disk, registry, goroutines, flushPc, r>>

\* for msg := range a.inputChan: the message received, and the channel after
receive(ch) == [msg |-> Head(ch), rest |-> Tail(ch)]

\* run's body storing the offset 0 like any other
runBodyStoresZero(reg, msg, t) ==
    IF msg.Offset >= 0
    THEN updateRegistry(reg, msg.Path, msg.Offset, t)
    ELSE reg

\* the registry after the body of run's loop on msg, at time t
runBody(reg, msg, t) ==
    IF msg.Offset > 0
    THEN updateRegistry(reg, msg.Path, msg.Offset, t)
    ELSE reg

\* one iteration of run
Run ==
    /\ "run" \in goroutines
    /\ inputChan # <<>>
    /\ inputChan' = receive(inputChan).rest
    /\ registry' = runBody(registry, receive(inputChan).msg, now)
    /\ UNCHANGED <<now, disk, goroutines, flushPc, r>>

\* a producer sends msg while run waits on the empty channel: the send and
\* the receive are one event, and run handles msg at once
Deliver(msg) ==
    /\ "run" \in goroutines
    /\ inputChan = <<>>
    /\ inputChan' = receive(Append(inputChan, msg)).rest
    /\ registry' = runBody(registry, receive(Append(inputChan, msg)).msg, now)
    /\ UNCHANGED <<now, disk, goroutines, flushPc, r>>

\* flushRegistry, first half: r := a.readOnlyRegistryCopy(registry)
FlushCopy ==
    /\ "flushRegistryPediodically" \in goroutines
    /\ flushPc = "tick"
    /\ r' = readOnlyRegistryCopy(registry)
    /\ flushPc' = "write"
    /\ UNCHANGED <<now, disk, registry, goroutines, inputChan>>

\* flushRegistry, second half: marshal r and ioutil.WriteFile it; a write
\* that fails leaves the old file or a truncated one
FlushWrite ==
    /\ flushPc = "write"
    /\ \/ disk' = marshalRegistry(r)
       \/ disk' \in {disk, Corrupt}
    /\ r' = EmptyRegistry
    /\ flushPc' = "tick"
    /\ UNCHANGED <<now, registry, goroutines, inputChan>>

\* one tick of cleanupRegistryPeriodically: cleanupRegistry reads the clock,
\* takes registryMutex and sweeps the registry
Cleanup ==
    /\ "cleanupRegistryPeriodically" \in goroutines
    /\ registry' = cleanupRegistry(registry, now)
    /\ UNCHANGED <<now, disk, goroutines, inputChan, flushPc, r>>

\* a caller asks GetLastCommitedOffset for id
Lookup(id) ==
    /\ lastOp' = Op("lookup", id, GetLastCommitedOffset(registry, id)[1],
                    GetLastCommitedOffset(registry, id)[2])
    /\ UNCHANGED <<now, disk, registry, goroutines, inputChan, flushPc, r, lastSent>>

(* ----------------------------- the histories -------------------------- *)

\* lastSent after msg has been sent
Sent(msg) ==
    IF msg.Offset # 0 THEN [lastSent EXCEPT ![msg.Path] = msg.Offset] ELSE lastSent

\* the offset the registry holds for path, 0 when it holds none
Held(path) == IF path \in DOMAIN registry THEN registry[path].Offset ELSE 0

\* lastOp after run has handled the head of inputChan
RunOp == Op("run", Head(inputChan).Path, Head(inputChan).Offset, Held(Head(inputChan).Path))

(* -------------------------- the specifications ------------------------ *)

\* The consumer loop, the cleanup loop and the callers of the lookup.  The
\* flush loop reads the registry and writes only the file, which nothing
\* reads after Start: it is left out here and has SpecFlush.
Next ==
    \/ Tick /\ lastOp' = NoOp /\ UNCHANGED <<lastSent, mutexVars, tailerVars>>
    \/ Start /\ lastOp' = Op("start", "", 0, 0) /\ UNCHANGED <<lastSent, mutexVars, tailerVars>>
    \/ \E path \in SourcePaths, offset \in Offsets :
         /\ Send(Message(path, offset))
         /\ lastSent' = Sent(Message(path, offset))
         /\ lastOp' = NoOp
         /\ UNCHANGED <<mutexVars, tailerVars>>
    \/ Run /\ lastOp' = RunOp /\ UNCHANGED <<lastSent, mutexVars, tailerVars>>
    \/ Cleanup /\ lastOp' = Op("cleanup", "", 0, Cardinality(DOMAIN registry))
               /\ UNCHANGED <<lastSent, mutexVars, tailerVars>>
    \/ \E id \in LookupIds : Lookup(id) /\ UNCHANGED <<mutexVars, tailerVars>>

Spec == Init /\ [][Next]_vars

\* The consumer loop, the cleanup loop and the flush loop.  No sender waits:
\* what a queue of waiting messages adds is the order in which run receives
\* them, which Spec covers.
NextFlush ==
    \/ Tick /\ UNCHANGED <<lastSent, lastOp, mutexVars, tailerVars>>
    \/ Start /\ UNCHANGED <<lastSent, lastOp, mutexVars, tailerVars>>
    \/ \E path \in SourcePaths, offset \in Offsets :
         Deliver(Message(path, offset)) /\ UNCHANGED <<lastSent, lastOp, mutexVars, tailerVars>>
    \/ Cleanup /\ UNCHANGED <<lastSent, lastOp, mutexVars, tailerVars>>
    \/ FlushCopy /\ UNCHANGED <<lastSent, lastOp, mutexVars, tailerVars>>
    \/ FlushWrite /\ UNCHANGED <<lastSent, lastOp, mutexVars, tailerVars>>

SpecFlush == Init /\ [][NextFlush]_vars

(* ----------------- the registry operations step by step --------------- *)

\* a.registryMutex.Lock() taking the mutex whoever holds it
LockWithoutWaiting(holder) == registryMutex' = holder

\* a.registryMutex.Lock() by holder: waits until the mutex is free
Lock(holder) == registryMutex = "" /\ registryMutex' = holder

\* a.registryMutex.Unlock()
Unlock == registryMutex' = ""

\* run receives m from a sender; a message of offset 0 is dropped at once
RunReceive(m) ==
    /\ "run" \in goroutines
    /\ runPc = "recv"
    /\ inputChan = <<>>
    /\ IF m.Offset > 0
       THEN runMsg' = m /\ runPc' = "lock"
       ELSE UNCHANGED <<runMsg, runPc>>
    /\ UNCHANGED <<now, disk, registry, goroutines, inputChan, flushPc, r,
                   registryMutex, cleanupPc, sweepBefore, toSweep>>

\* updateRegistry: a.registryMutex.Lock()
RunLock ==
    /\ runPc = "lock"
    /\ Lock("run")
    /\ runPc' = "update"
    /\ UNCHANGED <<now, disk, registry, goroutines, inputChan, flushPc, r,
                   runMsg, cleanupPc, sweepBefore, toSweep>>

\* updateRegistry: the lookup, then the new entry stored, or
\* entry.Timestamp = time.Now() on an entry whose offset differs
RunUpdate ==
    /\ runPc = "update"
    /\ IF runMsg.Path \notin DOMAIN registry
       THEN /\ registry' = store(registry, runMsg.Path,
                                 RegistryEntry(runMsg.Path, now, runMsg.Offset))
            /\ runPc' = "unlock"
       ELSE IF registry[runMsg.Path].Offset # runMsg.Offset
            THEN /\ registry' = [registry EXCEPT ![runMsg.Path].Timestamp = now]
                 /\ runPc' = "offset"
            ELSE /\ registry' = registry
                 /\ runPc' = "unlock"
    /\ UNCHANGED <<now, disk, goroutines, inputChan, flushPc, r,
                   registryMutex, runMsg, cleanupPc, sweepBefore, toSweep>>

\* updateRegistry: entry.Offset = offset
RunOffset ==
    /\ runPc = "offset"
    /\ registry' = [registry EXCEPT ![runMsg.Path].Offset = runMsg.Offset]
    /\ runPc' = "unlock"
    /\ UNCHANGED <<now, disk, goroutines, inputChan, flushPc, r,
                   registryMutex, runMsg, cleanupPc, sweepBefore, toSweep>>

\* updateRegistry: the deferred a.registryMutex.Unlock(); run goes back to
\* the channel
RunUnlock ==
    /\ runPc = "unlock"
    /\ Unlock
    /\ runPc' = "recv"
    /\ runMsg' = NoMessage
    /\ UNCHANGED <<now, disk, registry, goroutines, inputChan, flushPc, r,
                   cleanupPc, sweepBefore, toSweep>>

\* readOnlyRegistryCopy: a.registryMutex.Lock() and r := make(map)
FlushLock ==
    /\ "flushRegistryPediodically" \in goroutines
    /\ flushPc = "tick"
    /\ Lock("flush")
    /\ flushPc' = "copy"
    /\ r' = EmptyRegistry
    /\ UNCHANGED <<now, disk, registry, goroutines, inputChan,
                   runPc, runMsg, cleanupPc, sweepBefore, toSweep>>

\* readOnlyRegistryCopy: r[path] = *entry, for a path the range loop has
\* not produced yet
FlushCopyEntry(path) ==
    /\ flushPc = "copy"
    /\ path \in DOMAIN registry \ DOMAIN r
    /\ r' = store(r, path, registry[path])
    /\ UNCHANGED <<now, disk, registry, goroutines, inputChan, flushPc,
                   registryMutex, runPc, runMsg, cleanupPc, sweepBefore, toSweep>>

\* readOnlyRegistryCopy: the range loop is over, the deferred Unlock, return r
FlushUnlock ==
    /\ flushPc = "copy"
    /\ DOMAIN registry \subseteq DOMAIN r
    /\ Unlock
    /\ flushPc' = "write"
    /\ UNCHANGED <<now, disk, registry, goroutines, inputChan, r,
                   runPc, runMsg, cleanupPc, sweepBefore, toSweep>>

\* cleanupRegistry: expireBefore := time.Now().Add(-a.entryTTL)
CleanupNow ==
    /\ "cleanupRegistryPeriodically" \in goroutines
    /\ cleanupPc = "tick"
    /\ sweepBefore' = now - defaultTTL
    /\ cleanupPc' = "lock"
    /\ UNCHANGED <<now, disk, registry, goroutines, inputChan, flushPc, r,
                   registryMutex, runPc, runMsg, toSweep>>

\* cleanupRegistry: a.registryMutex.Lock() and the range loop begins
CleanupLock ==
    /\ cleanupPc = "lock"
    /\ Lock("cleanup")
    /\ toSweep' = DOMAIN registry
    /\ cleanupPc' = "sweep"
    /\ UNCHANGED <<now, disk, registry, goroutines, inputChan, flushPc, r,
                   runPc, runMsg, sweepBefore>>

\* cleanupRegistry: one round of the range loop
CleanupEntry(path) ==
    /\ cleanupPc = "sweep"
    /\ path \in toSweep
    /\ registry' = IF path \in DOMAIN registry
                      /\ Before(registry[path].Timestamp, sweepBefore)
                   THEN delete(registry, path)
                   ELSE registry
    /\ toSweep' = toSweep \ {path}
    /\ UNCHANGED <<now, disk, goroutines, inputChan, flushPc, r,
                   registryMutex, runPc, runMsg, cleanupPc, sweepBefore>>

\* cleanupRegistry: the range loop is over, the deferred Unlock
CleanupUnlock ==
    /\ cleanupPc = "sweep"
    /\ toSweep = {}
    /\ Unlock
    /\ cleanupPc' = "tick"
    /\ sweepBefore' = ZeroTime
    /\ UNCHANGED <<now, disk, registry, goroutines, inputChan, flushPc, r,
                   runPc, runMsg, toSweep>>

\* the paths of reg with their offsets
OffsetsOf(reg) == [p \in DOMAIN reg |-> reg[p].Offset]

\* neither updateRegistry nor cleanupRegistry is between its Lock and its Unlock
AtRest(rpc, cpc) == rpc \notin {"update", "offset", "unlock"} /\ cpc # "sweep"

\* stood after a step: while the copy is being taken, every registry there
\* is between two operations is recorded; the record lasts until the write
Stood ==
    stood' = IF flushPc' = "copy"
             THEN (IF flushPc = "copy" THEN stood ELSE {})
                  \cup (IF AtRest(runPc', cleanupPc') THEN {OffsetsOf(registry')} ELSE {})
             ELSE IF flushPc' = "write" THEN stood ELSE {}

\* The three loops with every registry operation taken step by step under
\* registryMutex.
NextMutex ==
    \/ Tick /\ UNCHANGED <<lastSent, lastOp, mutexVars, tailerVars>>
    \/ Start /\ UNCHANGED <<lastSent, lastOp, mutexVars, tailerVars>>
    \/ \E path \in SourcePaths, offset \in BranchOffsets :
         RunReceive(Message(path, offset)) /\ Stood /\ UNCHANGED <<lastSent, lastOp, tailerVars>>
    \/ RunLock /\ Stood /\ UNCHANGED <<lastSent, lastOp, tailerVars>>
    \/ RunUpdate /\ Stood /\ UNCHANGED <<lastSent, lastOp, tailerVars>>
    \/ RunOffset /\ Stood /\ UNCHANGED <<lastSent, lastOp, tailerVars>>
    \/ RunUnlock /\ Stood /\ UNCHANGED <<lastSent, lastOp, tailerVars>>
    \/ FlushLock /\ Stood /\ UNCHANGED <<lastSent, lastOp, tailerVars>>
    \/ \E path \in SourcePaths : FlushCopyEntry(path) /\ Stood /\ UNCHANGED <<lastSent, lastOp, tailerVars>>
    \/ FlushUnlock /\ Stood /\ UNCHANGED <<lastSent, lastOp, tailerVars>>
    \/ FlushWrite /\ Stood /\ UNCHANGED <<lastSent, lastOp, registryMutex, runPc, runMsg,
                                          cleanupPc, sweepBefore, toSweep, tailerVars>>
    \/ CleanupNow /\ Stood /\ UNCHANGED <<lastSent, lastOp, tailerVars>>
    \/ CleanupLock /\ Stood /\ UNCHANGED <<lastSent, lastOp, tailerVars>>
    \/ \E path \in SourcePaths : CleanupEntry(path) /\ Stood /\ UNCHANGED <<lastSent, lastOp, tailerVars>>
    \/ CleanupUnlock /\ Stood /\ UNCHANGED <<lastSent, lastOp, tailerVars>>

SpecMutex == Init /\ [][NextMutex]_vars

(* -------------------------------- the Tailer -------------------------- *)

Min(a, b) == IF a < b THEN a ELSE b

\* f.Seek(offset, whence) on a descriptor at pos of a file of size bytes: the
\* new position from the start of the file
Seek(offset, whence, pos, size) ==
    CASE whence = SEEK_SET -> offset
      [] whence = SEEK_CUR -> pos + offset
      [] whence = SEEK_END -> size + offset

\* the positions tailFrom is called with: tailFromBegining, tailFromEnd, and
\* the offset and whence GetLastCommitedOffset gave
Whences == {<<0, SEEK_SET>>, <<0, SEEK_END>>, <<1, SEEK_CUR>>}

\* the record the decoder frames from a chunk of n bytes that starts at
\* offset: it carries the offset after the record
Decoded(offset, n) == offset + n

\* t.file.Read is at end-of-file
AtEOF(file) == file.pos >= file.size

\* atomic.AddInt64(&t.lastOffset, -n)
incrementLastOffsetBackwards(cursor, n) == cursor - n

\* incrementLastOffset(n): atomic.AddInt64(&t.lastOffset, int64(n))
incrementLastOffset(cursor, n) == cursor + n

\* the writer of the log appends one byte to the file
FileGrows ==
    /\ osFile.size < MaxSize
    /\ osFile' = [osFile EXCEPT !.size = @ + 1]
    /\ UNCHANGED <<tailer, readLoop, decoder, forward, caller, hist>>

\* tailFrom(offset, whence): d.Start(), go forwardMessages(), startReading;
\* opens tells whether filepath.Abs and os.Open succeed
tailFrom(offset, whence, opens) ==
    /\ caller.tail = "created"
    /\ decoder' = [decoder EXCEPT !.state = "run"]
    /\ forward' = [forward EXCEPT !.pc = "recv"]
    /\ IF opens
       THEN /\ osFile' = [osFile EXCEPT !.pos = Seek(offset, whence, 0, osFile.size)]
            /\ tailer' = [tailer EXCEPT !.file = "open",
                                        !.lastOffset = Seek(offset, whence, 0, osFile.size)]
            /\ readLoop' = [readLoop EXCEPT !.pc = "hardcheck"]
            /\ caller' = [caller EXCEPT !.tail = "reading"]
            /\ hist' = [hist EXCEPT !.start = Seek(offset, whence, 0, osFile.size)]
       ELSE /\ caller' = [caller EXCEPT !.tail = "failed"]
            /\ UNCHANGED <<osFile, tailer, readLoop, hist>>

\* Stop(shouldTrackOffset), all of it under stopMutex
Stop(shouldTrackOffset) ==
    /\ caller.stops < MaxStops
    /\ tailer' = [tailer EXCEPT !.shouldStop = TRUE,
                                !.shouldTrackOffset = shouldTrackOffset,
                                !.stopTimer = "running"]
    /\ caller' = [caller EXCEPT !.stops = @ + 1]
    /\ hist' = [hist EXCEPT !.tracks = @ \cup {shouldTrackOffset}]
    /\ UNCHANGED <<osFile, readLoop, decoder, forward>>

\* closeTimeout has passed since the Stop that made the timer: the timer
\* sends on its channel C
TimerFires ==
    /\ tailer.stopTimer = "running"
    /\ tailer' = [tailer EXCEPT !.stopTimer = "fired"]
    /\ hist' = [hist EXCEPT !.fired = TRUE]
    /\ UNCHANGED <<osFile, readLoop, decoder, forward, caller>>

\* shouldHardStop giving true as soon as Stop has been called
ReadHardCheckStopsAtOnce ==
    /\ readLoop.pc = "hardcheck"
    /\ IF tailer.stopTimer = "fired"
       THEN /\ tailer' = [tailer EXCEPT !.stopTimer = "received"]
            /\ readLoop' = [readLoop EXCEPT !.pc = "hardStop"]
       ELSE /\ readLoop' = [readLoop EXCEPT !.pc = IF tailer.shouldStop THEN "hardStop" ELSE "read"]
            /\ UNCHANGED tailer
    /\ UNCHANGED <<osFile, decoder, forward, caller, hist>>

\* readForever: if t.shouldHardStop(), which receives from stopTimer.C when
\* the timer has fired
ReadHardCheck ==
    /\ readLoop.pc = "hardcheck"
    /\ IF tailer.stopTimer = "fired"
       THEN /\ tailer' = [tailer EXCEPT !.stopTimer = "received"]
            /\ readLoop' = [readLoop EXCEPT !.pc = "hardStop"]
       ELSE /\ readLoop' = [readLoop EXCEPT !.pc = "read"]
            /\ UNCHANGED tailer
    /\ UNCHANGED <<osFile, decoder, forward, caller, hist>>

\* onStop going back to the loop instead of ending readForever
onStopKeepsReading ==
    /\ readLoop.pc \in {"hardStop", "softStop"}
    /\ decoder' = [decoder EXCEPT !.state = IF @ = "run" THEN "stopping" ELSE @]
    /\ tailer' = [tailer EXCEPT !.file = IF @ = "nil" THEN @ ELSE "closed",
                                !.stopTimer = IF @ = "nil" THEN @ ELSE "stopped"]
    /\ hist' = [hist EXCEPT !.closes = IF tailer.file = "nil" THEN @ ELSE @ + 1]
    /\ readLoop' = [readLoop EXCEPT !.pc = IF tailer.stopTimer = "nil" THEN "panic" ELSE "hardcheck"]
    /\ UNCHANGED <<osFile, forward, caller>>

\* onStop(), all of it under stopMutex, and readForever's return: the
\* decoder told to stop, the file closed, the timer stopped.  Close on a nil
\* *os.File returns an error and closes nothing; Stop on a nil *time.Timer
\* is a nil dereference, and the goroutine panics holding stopMutex.
onStop ==
    /\ readLoop.pc \in {"hardStop", "softStop"}
    /\ decoder' = [decoder EXCEPT !.state = IF @ = "run" THEN "stopping" ELSE @]
    /\ tailer' = [tailer EXCEPT !.file = IF @ = "nil" THEN @ ELSE "closed",
                                !.stopTimer = IF @ = "nil" THEN @ ELSE "stopped"]
    /\ hist' = [hist EXCEPT !.closes = IF tailer.file = "nil" THEN @ ELSE @ + 1,
                            !.exit = IF readLoop.pc = "hardStop" THEN "hard" ELSE "soft"]
    /\ readLoop' = [readLoop EXCEPT !.pc = IF tailer.stopTimer = "nil" THEN "panic" ELSE "done"]
    /\ UNCHANGED <<osFile, forward, caller>>

\* t.file.Read(inBuf) returns n bytes, n = 0 included, and no error
ReadData(n) ==
    /\ readLoop.pc = "read"
    /\ tailer.file = "open"
    /\ ~AtEOF(osFile)
    /\ n <= Min(BufSize, osFile.size - osFile.pos)
    /\ osFile' = [osFile EXCEPT !.pos = @ + n]
    /\ readLoop' = [readLoop EXCEPT !.pc = IF n = 0 THEN "hardcheck" ELSE "load", !.n = n]
    /\ hist' = [hist EXCEPT !.eof = FALSE]
    /\ UNCHANGED <<tailer, decoder, forward, caller>>

\* t.file.Read(inBuf) returns io.EOF
ReadEOF ==
    /\ readLoop.pc = "read"
    /\ tailer.file = "open"
    /\ AtEOF(osFile)
    /\ readLoop' = [readLoop EXCEPT !.pc = "eof"]
    /\ hist' = [hist EXCEPT !.eof = TRUE]
    /\ UNCHANGED <<tailer, osFile, decoder, forward, caller>>

\* t.file.Read(inBuf) returns another error: readForever logs it and returns
ReadError ==
    /\ readLoop.pc = "read"
    /\ readLoop' = [readLoop EXCEPT !.pc = "failed"]
    /\ hist' = [hist EXCEPT !.eof = FALSE, !.exit = "error"]
    /\ UNCHANGED <<tailer, osFile, decoder, forward, caller>>

\* end-of-file taken for a request to stop
ReadSoftCheckStopsAtEOF ==
    /\ readLoop.pc = "eof"
    /\ readLoop' = [readLoop EXCEPT !.pc = "softStop"]
    /\ UNCHANGED <<tailer, osFile, decoder, forward, caller, hist>>

\* after io.EOF: if t.shouldSoftStop(), else t.wait() and continue
ReadSoftCheck ==
    /\ readLoop.pc = "eof"
    /\ readLoop' = [readLoop EXCEPT !.pc = IF tailer.shouldStop THEN "softStop" ELSE "hardcheck"]
    /\ UNCHANGED <<tailer, osFile, decoder, forward, caller, hist>>

\* the payload built with the cursor as it will be after the chunk
ReadLoadsAdvancedCursor ==
    /\ readLoop.pc = "load"
    /\ readLoop' = [readLoop EXCEPT !.pc = "send", !.offset = tailer.lastOffset + readLoop.n]
    /\ UNCHANGED <<tailer, osFile, decoder, forward, caller, hist>>

\* decoder.NewPayload(inBuf[:n], t.GetLastOffset()): the cursor is loaded
ReadLoad ==
    /\ readLoop.pc = "load"
    /\ readLoop' = [readLoop EXCEPT !.pc = "send", !.offset = tailer.lastOffset]
    /\ UNCHANGED <<tailer, osFile, decoder, forward, caller, hist>>

\* t.d.InputChan <- payload: the decoder, waiting on its InputChan, takes
\* the payload and frames a record from it
ReadSend ==
    /\ readLoop.pc = "send"
    /\ decoder.state = "run"
    /\ decoder.rec = 0
    /\ decoder' = [decoder EXCEPT !.rec = Decoded(readLoop.offset, readLoop.n)]
    /\ readLoop' = [readLoop EXCEPT !.pc = "incr"]
    /\ hist' = [hist EXCEPT !.handed = @ + readLoop.n]
    /\ UNCHANGED <<tailer, osFile, forward, caller>>

\* t.incrementLastOffset(n), and the loop starts over
ReadIncr ==
    /\ readLoop.pc = "incr"
    /\ tailer' = [tailer EXCEPT !.lastOffset = incrementLastOffset(@, readLoop.n)]
    /\ readLoop' = [readLoop EXCEPT !.pc = "hardcheck", !.n = 0, !.offset = 0]
    /\ UNCHANGED <<osFile, decoder, forward, caller, hist>>

\* forwardMessages receives a record from d.OutputChan and builds fileMsg;
\* its read of t.shouldTrackOffset, outside stopMutex, gives track
ForwardReceive(track) ==
    /\ forward.pc = "recv"
    /\ decoder.rec # 0
    /\ track \in hist.tracks
    /\ forward' = [forward EXCEPT !.pc = "send", !.msg = decoder.rec,
                                  !.offset = IF track THEN decoder.rec ELSE 0]
    /\ decoder' = [decoder EXCEPT !.rec = 0]
    /\ UNCHANGED <<tailer, osFile, readLoop, caller, hist>>

\* forwardMessages receives the decoder's StopMessage and returns
ForwardStop ==
    /\ forward.pc = "recv"
    /\ decoder.rec = 0
    /\ decoder.state = "stopping"
    /\ forward' = [forward EXCEPT !.pc = "done"]
    /\ decoder' = [decoder EXCEPT !.state = "done"]
    /\ UNCHANGED <<tailer, osFile, readLoop, caller, hist>>

\* t.outputChan <- fileMsg: whoever reads the shared channel receives it
Push ==
    /\ forward.pc = "send"
    /\ forward' = [forward EXCEPT !.pc = "recv", !.msg = 0, !.offset = 0]
    /\ hist' = [hist EXCEPT !.arrived = IF forward.offset # 0 THEN forward.offset ELSE @]
    /\ UNCHANGED <<tailer, osFile, readLoop, decoder, caller>>

\* reset(): t.file.Seek(0, os.SEEK_SET)
ResetSeek ==
    /\ caller.tail = "reading"
    /\ caller.reset = "idle"
    /\ caller.resets < MaxResets
    /\ osFile' = [osFile EXCEPT !.pos = IF tailer.file = "open"
                                        THEN Seek(0, SEEK_SET, @, osFile.size)
                                        ELSE @]
    /\ caller' = [caller EXCEPT !.reset = "store", !.resets = @ + 1]
    /\ hist' = [hist EXCEPT !.reset = TRUE]
    /\ UNCHANGED <<tailer, readLoop, decoder, forward>>

\* reset(): t.setLastOffset(0)
ResetStore ==
    /\ caller.reset = "store"
    /\ tailer' = [tailer EXCEPT !.lastOffset = 0]
    /\ caller' = [caller EXCEPT !.reset = "idle"]
    /\ UNCHANGED <<osFile, readLoop, decoder, forward, hist>>

\* One Tailer on which reset is not called: the callers of tailFrom and
\* Stop, its two goroutines, the decoder, the timer, the writer of the file
\* and the reader of the output channel.
NextTailer ==
    \/ FileGrows /\ UNCHANGED auditorVars
    \/ \E w \in Whences, opens \in BOOLEAN :
         tailFrom(w[1], w[2], opens) /\ UNCHANGED auditorVars
    \/ \E shouldTrackOffset \in BOOLEAN : Stop(shouldTrackOffset) /\ UNCHANGED auditorVars
    \/ TimerFires /\ UNCHANGED auditorVars
    \/ ReadHardCheck /\ UNCHANGED auditorVars
    \/ onStop /\ UNCHANGED auditorVars
    \/ \E n \in 0..MaxSize : ReadData(n) /\ UNCHANGED auditorVars
    \/ ReadEOF /\ UNCHANGED auditorVars
    \/ ReadError /\ UNCHANGED auditorVars
    \/ ReadSoftCheck /\ UNCHANGED auditorVars
    \/ ReadLoad /\ UNCHANGED auditorVars
    \/ ReadSend /\ UNCHANGED auditorVars
    \/ ReadIncr /\ UNCHANGED auditorVars
    \/ \E track \in BOOLEAN : ForwardReceive(track) /\ UNCHANGED auditorVars
    \/ ForwardStop /\ UNCHANGED auditorVars
    \/ Push /\ UNCHANGED auditorVars

\* the Tailer of a source the registry file, not there yet, knows nothing of
InitTailer == Init /\ disk = Missing

SpecTailer == InitTailer /\ [][NextTailer]_vars

\* One Tailer that is not stopped and whose reads do not fail, and the
\* caller of reset.
NextReset ==
    \/ FileGrows /\ UNCHANGED auditorVars
    \/ \E w \in Whences, opens \in BOOLEAN :
         tailFrom(w[1], w[2], opens) /\ UNCHANGED auditorVars
    \/ ReadHardCheck /\ UNCHANGED auditorVars
    \/ \E n \in 0..MaxSize : ReadData(n) /\ UNCHANGED auditorVars
    \/ ReadEOF /\ UNCHANGED auditorVars
    \/ ReadSoftCheck /\ UNCHANGED auditorVars
    \/ ReadLoad /\ UNCHANGED auditorVars
    \/ ReadSend /\ UNCHANGED auditorVars
    \/ ReadIncr /\ UNCHANGED auditorVars
    \/ \E track \in BOOLEAN : ForwardReceive(track) /\ UNCHANGED auditorVars
    \/ Push /\ UNCHANGED auditorVars
    \/ ResetSeek /\ UNCHANGED auditorVars
    \/ ResetStore /\ UNCHANGED auditorVars

SpecReset == InitTailer /\ [][NextReset]_vars

\* a step of the goroutine readForever, whose reads do not fail
ReadSteps ==
    \/ ReadHardCheck
    \/ onStop
    \/ \E n \in 0..MaxSize : ReadData(n)
    \/ ReadEOF
    \/ ReadSoftCheck
    \/ ReadLoad
    \/ ReadSend
    \/ ReadIncr

\* a step forwardMessages can take without the reader of outputChan
ForwardSteps == (\E track \in BOOLEAN : ForwardReceive(track)) \/ ForwardStop

\* One Tailer whose reads do not fail, as NextTailer.
NextStopping ==
    \/ FileGrows /\ UNCHANGED auditorVars
    \/ \E w \in Whences, opens \in BOOLEAN :
         tailFrom(w[1], w[2], opens) /\ UNCHANGED auditorVars
    \/ \E shouldTrackOffset \in BOOLEAN : Stop(shouldTrackOffset) /\ UNCHANGED auditorVars
    \/ TimerFires /\ UNCHANGED auditorVars
    \/ ReadSteps /\ UNCHANGED auditorVars
    \/ ForwardSteps /\ UNCHANGED auditorVars
    \/ Push /\ UNCHANGED auditorVars

\* The Go scheduler runs every goroutine that can take a step, and a timer
\* that runs fires.  Nothing makes the writer of the file write, the callers
\* call, or the reader of outputChan receive.
SpecStopping ==
    /\ InitTailer
    /\ [][NextStopping]_vars
    /\ WF_vars(ReadSteps /\ UNCHANGED auditorVars)
    /\ WF_vars(ForwardSteps /\ UNCHANGED auditorVars)
    /\ WF_vars(TimerFires /\ UNCHANGED auditorVars)

(* ------------------------------- the claims --------------------------- *)

\* the three goroutines of Start
Loops == {"run", "flushRegistryPediodically", "cleanupRegistryPeriodically"}

\* the message run is about to receive
Incoming == Head(inputChan)

\* C1: a lookup that has just returned gave (stored offset, SEEK_CUR) when
\* the registry holds an entry for the identifier and (0, SEEK_END) when it
\* holds none; the registry it ran on is the registry there is now.
C1_LookupResult ==
    lastOp.op = "lookup" =>
        IF lastOp.path \in DOMAIN registry
        THEN lastOp.offset = registry[lastOp.path].Offset /\ lastOp.n = SEEK_CUR
        ELSE lastOp.offset = 0 /\ lastOp.n = SEEK_END

\* a lookup found an entry while the other path has none
C1_Witness ==
    /\ lastOp.op = "lookup"
    /\ lastOp.path \in DOMAIN registry
    /\ lastOp.offset > 0
    /\ lastOp.n = SEEK_CUR
    /\ DOMAIN registry # SourcePaths

\* C2: looking an identifier up with the "file:" prefix gives what looking
\* it up bare gives, in every registry.
C2_LegacyPrefixIgnored ==
    \A path \in SourcePaths :
        GetLastCommitedOffset(registry, LegacyId(path)) = GetLastCommitedOffset(registry, path)

\* C3: updateRegistry stamps the entry with the time of the call when it
\* creates it or changes its offset and leaves the stamp alone when the
\* offset is the one stored; no other step changes the stamp of an entry.
C3_StampOnlyOnChange ==
    [][/\ (Run /\ Incoming.Offset > 0) =>
             registry'[Incoming.Path].Timestamp =
                 IF Incoming.Path \in DOMAIN registry
                    /\ registry[Incoming.Path].Offset = Incoming.Offset
                 THEN registry[Incoming.Path].Timestamp
                 ELSE now
       /\ \A path \in DOMAIN registry \cap DOMAIN registry' :
             registry'[path].Timestamp # registry[path].Timestamp =>
                 /\ Run
                 /\ Incoming.Path = path
                 /\ Incoming.Offset # registry[path].Offset
      ]_vars

\* run has just confirmed the offset an entry already held, and the entry
\* keeps a stamp older than the clock
C3_Witness ==
    /\ lastOp.op = "run"
    /\ lastOp.offset > 0
    /\ lastOp.n = lastOp.offset
    /\ lastOp.path \in DOMAIN registry
    /\ registry[lastOp.path].Timestamp < now

\* no message with a non-zero offset for path waits on inputChan
NonePending(path) ==
    \A i \in 1..Len(inputChan) :
        inputChan[i].Path = path => inputChan[i].Offset = 0

C5_ZeroOffsetIgnored ==
    [][(Run /\ Incoming.Offset = 0) => registry' = registry]_vars

\* run has just received a message of offset 0 for a path the registry,
\* which holds another, has no entry for
C5_Witness ==
    /\ lastOp.op = "run"
    /\ lastOp.offset = 0
    /\ lastOp.path \notin DOMAIN registry
    /\ registry # EmptyRegistry

\* reg and copy hold the same paths with the same offsets
SameOffsets(reg, copy) ==
    /\ DOMAIN reg = DOMAIN copy
    /\ \A path \in DOMAIN reg : reg[path].Offset = copy[path].Offset

\* C6: a flush that replaces the file writes one from which recoverRegistry
\* gives back the paths and offsets of the copy that was flushed.
C6_RoundTrip ==
    [][FlushWrite =>
          \/ disk' \in {disk, Corrupt}
          \/ SameOffsets(recoverRegistry(disk'), r)
      ]_vars

\* the file holds two entries written by a flush (one not older than the
\* start of the run, one with an offset no file held at the start), and
\* recovering it gives both
C6_Witness ==
    /\ disk.state = "json"
    /\ DOMAIN disk.Registry = SourcePaths
    /\ \E path \in SourcePaths : disk.Registry[path].Timestamp.t >= InitNow
    /\ \E path \in SourcePaths : disk.Registry[path].Offset > 1
    /\ DOMAIN recoverRegistry(disk) = SourcePaths

\* C7: every file a flush writes carries Version 1.
C7_WritesVersion1 ==
    [][(FlushWrite /\ disk' # disk /\ disk'.state = "json") =>
          disk'.Version = LaterVersion]_vars

\* after is before without its entries stamped more than the TTL before t
CleanedExactly(before, t, after) ==
    /\ DOMAIN after \subseteq DOMAIN before
    /\ \A path \in DOMAIN before :
          IF before[path].Timestamp < t - defaultTTL
          THEN path \notin DOMAIN after
          ELSE path \in DOMAIN after /\ after[path] = before[path]

\* C8: cleanupRegistry, in the cleanup loop and in Start, deletes the
\* entries stamped more than the TTL before the call and keeps every other
\* entry as it was.
C8_CleanupExact ==
    [][/\ Cleanup => CleanedExactly(registry, now, registry')
       /\ Start => CleanedExactly(recoverRegistry(disk), now, registry')
      ]_vars

\* the cleanup loop has just deleted one of two entries
C8_Witness ==
    /\ lastOp.op = "cleanup"
    /\ lastOp.n = 2
    /\ Cardinality(DOMAIN registry) = 1

\* C9: after a Start that could not read or unmarshal the file, the registry
\* is empty, the three goroutines are launched and every lookup gives
\* (0, SEEK_END).
C9_RecoveryNeverFails ==
    (lastOp.op = "start" /\ recoverFails(disk)) =>
        /\ registry = EmptyRegistry
        /\ goroutines = Loops
        /\ \A id \in LookupIds : GetLastCommitedOffset(registry, id) = <<0, SEEK_END>>

\* Start has just run on a file that is no JSON
C9_Witness ==
    /\ lastOp.op = "start"
    /\ disk = Corrupt
    /\ goroutines = Loops

\* C10: after a Start on a file whose Version is neither 0 nor 1 the
\* registry is empty.
C10_UnknownVersionEmpty ==
    (lastOp.op = "start" /\ disk.state = "json" /\ disk.Version \notin {WrittenVersion, LaterVersion})
        => registry = EmptyRegistry

\* C11: unmarshalRegistry gives an entry for every entry of the document,
\* with the stored offset; the entry's time of last update is the instant of
\* the stored Timestamp for a document of version 0 and the stored
\* LastUpdated for a document of version 1.
C11_UnmarshalKeepsEntries ==
    (disk.state = "json" /\ disk.Version \in {WrittenVersion, LaterVersion}) =>
        \A path \in DOMAIN disk.Registry :
            /\ path \in DOMAIN unmarshalRegistry(disk).registry
            /\ unmarshalRegistry(disk).registry[path].Offset = disk.Registry[path].Offset
            /\ unmarshalRegistry(disk).registry[path].Timestamp =
                  IF disk.Version = WrittenVersion
                  THEN UnmarshalTime(disk.Registry[path].Timestamp)
                  ELSE UnmarshalTime(disk.Registry[path].LastUpdated)

\* C12: every call of updateRegistry writes the timestamp the call brings
\* into the entry, whether it creates the entry, changes its offset or finds
\* the offset unchanged; the one timestamp a call brings is the time of the
\* call.
C12_StampOnEveryCall ==
    [][(Run /\ Incoming.Offset > 0) => registry'[Incoming.Path].Timestamp = now]_vars

\* C17: the copy a flush has taken, and so the document it is about to
\* write, holds the paths and offsets the registry stood at at one instant
\* between two registry operations while the copy was being taken.
C17_FlushWritesSnapshot ==
    flushPc = "write" =>
        /\ OffsetsOf(r) \in stood
        /\ OffsetsOf(marshalRegistry(r).Registry) = OffsetsOf(r)

\* a copy of two entries is about to be written while run, which received a
\* message during the copy, waits for the mutex or holds it, and the
\* registry has already moved on from the copy
C17_Witness ==
    /\ flushPc = "write"
    /\ DOMAIN r = SourcePaths
    /\ OffsetsOf(r) \in stood
    /\ OffsetsOf(registry) # OffsetsOf(r)

\* C13: the read loop that finds shouldStop set after a Read that gave
\* io.EOF goes to onStop; onStop runs on the open file, tells the decoder to
\* stop, closes the file, stops the timer and ends the loop, so that the
\* file is closed once; and once the file is closed the loop stays ended,
\* the file stays closed and its descriptor is read no further.
C13_SoftStopOnce ==
    [][/\ (ReadSoftCheck /\ tailer.shouldStop) => readLoop'.pc = "softStop"
       /\ onStop =>
             /\ tailer.file = "open"
             /\ hist.closes = 0
             /\ decoder.state = "run" /\ decoder'.state = "stopping"
             /\ tailer'.file = "closed"
             /\ tailer'.stopTimer = "stopped"
             /\ readLoop'.pc = "done"
       /\ tailer.file = "closed" =>
             /\ tailer'.file = "closed"
             /\ readLoop'.pc = "done"
             /\ osFile'.pos = osFile.pos
             /\ hist'.closes = 1
      ]_vars

\* the read loop has ended at end-of-file after a Stop whose timer never
\* fired: the file, the whole of which was read, is closed, the timer stopped
C13_Witness ==
    /\ readLoop.pc = "done"
    /\ hist.exit = "soft"
    /\ ~hist.fired
    /\ hist.closes = 1
    /\ tailer.file = "closed"
    /\ tailer.stopTimer = "stopped"
    /\ osFile.pos = MaxSize

\* C14: once the timer of Stop has fired on a Tailer that is reading, the
\* read loop ends with the file closed once, whether or not anyone receives
\* from the output channel.
C14_HardStopTerminates ==
    (tailer.stopTimer = "fired" /\ readLoop.pc \notin {"off", "done"})
        ~> (readLoop.pc = "done" /\ hist.closes = 1)

\* C15: every record forwardMessages pushes to the output channel once
\* Stop(false) has returned carries offset 0, and before any Stop, or after
\* Stop(true), the offset of the decoder's record it wraps.
C15_PushedOffsetFollowsStop ==
    [][Push => forward.offset = IF tailer.shouldTrackOffset THEN forward.msg ELSE 0]_vars

\* C16: on a Tailer on which reset is not called, the offsets other than 0
\* of the records arriving on the output channel never decrease from one
\* arrival to the next, and the read cursor never decreases.
C16_OffsetsNeverDecrease ==
    [][/\ (Push /\ forward.offset # 0) => forward.offset >= hist.arrived
       /\ tailer'.lastOffset >= tailer.lastOffset]_vars

\* a second record with an offset has been built, above the one that
\* arrived before it, and the cursor has advanced
C16_Witness ==
    /\ forward.pc = "send"
    /\ hist.arrived > 0
    /\ forward.offset > hist.arrived
    /\ tailer.lastOffset > hist.start

\* C18 as stated: the payload handed to the decoder carries the cursor of
\* before the read and the cursor advances only after the payload is handed
\* over, so that each time the read loop starts over the cursor is the offset
\* obtained at open plus the bytes handed to the decoder.
C18_CursorIsStartPlusHanded ==
    /\ readLoop.pc \in {"send", "incr"} => readLoop.offset = tailer.lastOffset
    /\ readLoop.pc = "incr" => tailer.lastOffset = hist.start + hist.handed - readLoop.n
    /\ readLoop.pc = "hardcheck" => tailer.lastOffset = hist.start + hist.handed

\* C18, amended: the same on a Tailer on which reset has not been called.
C18_CursorWithoutReset == ~hist.reset => C18_CursorIsStartPlusHanded

\* a Tailer started at the beginning has handed its bytes in more than one
\* chunk and its cursor is their number
C18_Witness ==
    /\ ~hist.reset
    /\ readLoop.pc = "hardcheck"
    /\ hist.start = 0
    /\ hist.handed = MaxSize
    /\ tailer.lastOffset = MaxSize
    /\ hist.arrived \in 1..(MaxSize - 1)

\* C19: when tailFrom has returned an error, because the path cannot be
\* resolved or the file cannot be opened, the decoder has not been started
\* and neither readForever nor forwardMessages has been launched.
C19_FailedTailFromStartsNothing ==
    caller.tail = "failed" =>
        /\ decoder.state = "init"
        /\ forward.pc = "off"
        /\ readLoop.pc = "off"

\* readForever returns: by the return after onStop or after a failed read
LoopEnds == readLoop.pc \notin {"done", "failed"} /\ readLoop'.pc \in {"done", "failed"}

\* the last read returned end-of-file and every byte of the file before it
\* has been handed to the decoder
AllHandedAtEOF == hist'.eof /\ hist.start + hist.handed = osFile.pos

\* C20 as stated: once Stop has been called, and as long as the timer has
\* not fired, readForever does not return before a read has returned
\* end-of-file, every byte before it having been handed to the decoder.
C20_SoftStopReadsToEOF ==
    [][(LoopEnds /\ tailer.shouldStop /\ ~hist.fired) => AllHandedAtEOF]_vars

\* C20, amended: the same, unless a read has failed with an error other than
\* end-of-file, where readForever returns at once and leaves the file open.
C20_SoftStopReadsToEOFOrFails ==
    [][(LoopEnds /\ tailer.shouldStop /\ ~hist.fired) =>
          \/ AllHandedAtEOF /\ tailer'.file = "closed"
          \/ hist'.exit = "error" /\ tailer'.file = "open"]_vars

\* after Stop(true), the timer not fired, a file of several bytes read in
\* several chunks has been handed over whole and closed at end-of-file
C20_Witness ==
    /\ readLoop.pc = "done"
    /\ hist.exit = "soft"
    /\ tailer.shouldTrackOffset
    /\ ~hist.fired
    /\ hist.eof
    /\ hist.start = 0
    /\ hist.handed >= 2
    /\ hist.handed = osFile.pos
    /\ hist.arrived \in 1..(hist.handed - 1)
    /\ tailer.file = "closed"

\* C21: whenever readForever enters onStop, after shouldSoftStop or after
\* shouldHardStop, Stop has been called, the timer is not nil and the file
\* has been opened and not closed; onStop never ends in a panic.
C21_OnStopAfterStop ==
    /\ readLoop.pc \in {"hardStop", "softStop"} =>
           /\ caller.stops > 0
           /\ tailer.shouldStop
           /\ tailer.stopTimer # "nil"
           /\ tailer.file = "open"
    /\ readLoop.pc # "panic"

\* readForever enters onStop by the hard path, the timer of the first Stop
\* received and a second Stop having made a new one
C21_Witness ==
    /\ readLoop.pc = "hardStop"
    /\ caller.stops = 2
    /\ tailer.stopTimer = "running"
    /\ tailer.file = "open"

====
